---- MODULE Spec2Model ----
(***************************************************************************)
(* Two-tier cache-aside store of collections                               *)
(* (src/src/database/models/collection_item.rs).                           *)
(*                                                                         *)
(* The durable tier is Postgres (tables collections and collections_mods), *)
(* the cache tier is Redis.  Callers run concurrently; each owns at most   *)
(* one transaction and runs one repository call at a time.  Every await of *)
(* the source is one step of the model, so calls of different callers      *)
(* interleave at every point where the source suspends.                    *)
(***************************************************************************)
EXTENDS Integers, Sequences, FiniteSets, TLC

\* ---------------------------------------------------------------- bounds
MaxId == 3            \* collection ids 1..MaxId
MaxCallId == 2        \* the concurrent callers work on ids 1..MaxCallId
MaxReq == 2           \* longest id slice given to get_many
MaxProjects == 3      \* longest project list of a builder
MaxOps == 3           \* repository calls started in one behaviour

\* Two callers run concurrently.  c1 is a handler that writes: it owns a
\* transaction for its inserts and removes, and may read through it.  c2 reads
\* and invalidates through the pool.
Callers == {"c1", "c2"}
Writers == {"c1"}
Ids == 1..MaxId
CallIds == 1..MaxCallId
ProjectIds == {10, 20}
\* the project lists builders are given: none, and one that repeats an id
ProjectLists == {<<>>, <<20, 10, 10>>}
Titles == {"a"}

\* ------------------------------------------------------------- constants
COLLECTIONS_NAMESPACE == "collections"
DEFAULT_EXPIRY == 1800

\* Option::None, the absence of a row, and a row a transaction has not written
None == [tag |-> "None"]
NoRow == [tag |-> "NoRow"]
Untouched == [tag |-> "Untouched"]

\* Some(()) and ()
Some == [tag |-> "Some"]
Unit == [tag |-> "unit"]

\* ------------------------------------------------------------- sequences
SeqsUpTo(S, n) == UNION {[1..k -> S] : k \in 0..n}

Range(s) == {s[i] : i \in DOMAIN s}

\* every ordering of a finite set
Orderings(S) == {s \in [1..Cardinality(S) -> S] : \A i, j \in DOMAIN s : i # j => s[i] # s[j]}

RECURSIVE SortedSeq(_)
SortedSeq(S) ==
  IF S = {} THEN <<>>
  ELSE LET m == CHOOSE x \in S : \A y \in S : x <= y
       IN <<m>> \o SortedSeq(S \ {m})

\* mutant: retain keeps every id
Retain_KeepsAll(s, id) == s

\* remaining_collections.retain(|x| collection.id.0 != x.0)
Retain(s, id) == SelectSeq(s, LAMBDA x : x # id)

\* ------------------------------------------------------------ data model
\* A row of table collections joined with its collections_mods rows.  title
\* stands for the scalar columns the builder supplies (user_id, title,
\* description, status, created); they are carried exactly like title.
\* mods lists the mod_id of the collections_mods rows of the collection, in
\* the order they were inserted; (collection_id, mod_id) is the key of the
\* table, so no mod_id occurs twice.
Rows ==
  [title : Titles, icon_url : {None}, color : {None},
   mods : UNION {Orderings(S) : S \in SUBSET ProjectIds}]

Builders ==
  [collection_id : CallIds, title : Titles,
   projects : {p \in ProjectLists : Len(p) <= MaxProjects /\ Range(p) \subseteq ProjectIds}]

\* struct Collection
Collection(id, title, icon_url, color, projects) ==
  [id |-> id, title |-> title, icon_url |-> icon_url, color |-> color, projects |-> projects]

\* cache key: format!("{}:{}", COLLECTIONS_NAMESPACE, id.0)
Key(id) == <<COLLECTIONS_NAMESPACE, id>>

Keys == {Key(i) : i \in Ids}

\* A JSON object: the list of its members, in the order they are written.
Member(name, value) == [name |-> name, value |-> value]

\* mutant: the projects of the collection are not serialized
ToJson_DropsProjects(c) ==
  [json |-> <<Member("id", c.id), Member("title", c.title),
              Member("icon_url", c.icon_url), Member("color", c.color),
              Member("projects", <<>>)>>]

\* serde_json::to_string(&collection): every field of the struct, in the
\* order of its declaration; None is written as null.
ToJson(c) ==
  [json |-> <<Member("id", c.id), Member("title", c.title),
              Member("icon_url", c.icon_url), Member("color", c.color),
              Member("projects", c.projects)>>]

\* A value no release of Collection deserializes.
Garbage == [json |-> <<Member("garbage", 0)>>]

\* A snapshot of collection id as a release wrote it that did not have the
\* members icon_url and color, wrote its members in another order and had a
\* member this release does not know.
OldJson(id) ==
  [json |-> <<Member("projects", <<10>>), Member("slug", 0),
              Member("title", "a"), Member("id", id)>>]

\* the members of object t named name
Named(t, name) == {n \in DOMAIN t : t[n].name = name}

\* the value of the member named name
ValueOf(t, name) == t[CHOOSE n \in DOMAIN t : t[n].name = name].value

\* serde_json::from_str::<Collection>(&x).ok(), as #[derive(Deserialize)]
\* reads an object: the members may come in any order; a member under a name
\* that is not a field is skipped; a field that occurs twice is an error; a
\* field that does not occur is an error, unless it is an Option, which is
\* then None.
FromJson(x) ==
  LET t == x.json
      Fields == {"id", "title", "icon_url", "color", "projects"}
      Optional(name) == IF Named(t, name) = {} THEN None ELSE ValueOf(t, name)
  IN IF /\ \A name \in Fields : Cardinality(Named(t, name)) <= 1
        /\ \A name \in {"id", "title", "projects"} : Named(t, name) # {}
     THEN Collection(ValueOf(t, "id"), ValueOf(t, "title"),
                     Optional("icon_url"), Optional("color"), ValueOf(t, "projects"))
     ELSE None

Absent == [tag |-> "Absent"]

\* mutant: the string is stored without an expiry
Entry_Persistent(v, ex) == [val |-> v, ex |-> 0]

\* a Redis string with its expiry (EX seconds; 0: none)
Entry(v, ex) == [val |-> v, ex |-> ex]

\* ----------------------------------------------------------------- state
VARIABLES
  db,         \* committed durable state: id -> row or NoRow
  txs,        \* caller -> "none" | "open" | "aborted": its transaction
  txw,        \* caller -> id -> Untouched | NoRow | row: uncommitted writes
  cache,      \* key -> Absent | Entry
  frame,      \* caller -> the locals of its running repository call
  ret,        \* the call that returned in the last step, or NoRet
  committed,  \* history: id -> the rows that were ever durably committed
  ops         \* repository calls started so far

vars == <<db, txs, txw, cache, frame, ret, committed, ops>>

\* The locals of a call.  wb is the number of db_collections written back.
\* builder is the CollectionBuilder of an insert.
\* cached notes, for each requested id in order, the snapshot its key held
\* when the MGET ran (None: no value, or one that does not deserialize).
\* log lists the statements and commands the
\* call has issued on the two tiers, in order, each with its outcome; alone
\* says that no other call ran, and nothing else changed a tier, since the
\* call began.
Idle ==
  [pc |-> "idle", op |-> "none", collection_ids |-> <<>>, exec |-> "pool",
   remaining_collections |-> <<>>, found_collections |-> <<>>,
   db_collections |-> <<>>, wb |-> 0, result |-> None, cached |-> <<>>, log |-> <<>>,
   builder |-> None, alone |-> TRUE]

Done(cmd) == [cmd |-> cmd, ok |-> TRUE]
Failed(cmd) == [cmd |-> cmd, ok |-> FALSE]

NoRet == [caller |-> "none"]

\* Result: Ok of a Vec<Collection>, of an Option or (), of an id; Err
Ok(v) == [kind |-> "Ok", val |-> v]
OkOpt(v) == [kind |-> "Ok", opt |-> v]
OkId(v) == [kind |-> "Ok", id |-> v]
Err(e) == [kind |-> "Err", err |-> e]

\* What a statement run on caller c's executor sees (READ COMMITTED): the
\* committed rows, overlaid with the writes of c's own open transaction.
View(c, e) ==
  [i \in Ids |-> IF e = "tx" /\ txw[c][i] # Untouched THEN txw[c][i] ELSE db[i]]

\* Another open transaction holds an uncommitted write on id i: a write of c
\* on i waits for it.
Locked(c, i) == \E d \in Callers \ {c} : txs[d] # "none" /\ txw[d][i] # Untouched

NoWrites == [i \in Ids |-> Untouched]

\* caller c's call is at the step named pc
At(c, pc) == ret = NoRet /\ frame[c].pc = pc

\* caller c runs no call and may begin one or end its transaction
Free(c) == At(c, "idle")

\* Another actor ran a call or changed a tier.
Disturb(f) == IF f.pc = "idle" THEN f ELSE [f EXCEPT !.alone = FALSE]

\* A new call of c finds no other call running.
StartsAlone(c) == \A d \in Callers \ {c} : frame[d].pc = "idle"

\* Caller c's step leaves its call in frame f.  A call that reached "done"
\* returns: its frame is handed to the caller (ret) and c runs no call any
\* more.  disturbs: the step began a call or changed a tier.
Step(c, f, disturbs) ==
  /\ frame' = [d \in Callers |->
                 IF d = c THEN (IF f.pc = "done" THEN Idle ELSE f)
                 ELSE IF disturbs THEN Disturb(frame[d]) ELSE frame[d]]
  /\ ret' = IF f.pc = "done" THEN [caller |-> c, call |-> f] ELSE NoRet

\* a step of the environment or of a caller outside a repository call
Outside(disturbs) ==
  /\ frame' = [d \in Callers |-> IF disturbs THEN Disturb(frame[d]) ELSE frame[d]]
  /\ ret' = NoRet

\* What the key of id i can hold when this release starts: nothing, or a
\* value an earlier release left, of a form this release does not
\* deserialize or of one it does.
Left(i) == {Absent, Entry(Garbage, DEFAULT_EXPIRY), Entry(OldJson(i), DEFAULT_EXPIRY)}

\* No collection exists yet.  The cache is shared with earlier releases;
\* what they left is explored for the keys the concurrent callers work on.
Init ==
  /\ db = [i \in Ids |-> NoRow]
  /\ txs = [c \in Callers |-> "none"]
  /\ txw = [c \in Callers |-> NoWrites]
  /\ cache \in {f \in [Keys -> UNION {Left(i) : i \in Ids}] :
                  \A i \in Ids : f[Key(i)] \in (IF i \in CallIds THEN Left(i) ELSE {Absent})}
  /\ frame = [c \in Callers |-> Idle]
  /\ ret = NoRet
  /\ committed = [i \in Ids |-> {}]
  /\ ops = 0

\* ---------------------------------------------------- caller: transaction
\* The caller owns the transaction (spec 2, "Caller"): it begins one for an
\* insert or a remove, and commits it or rolls it back between calls.
Begun(c) == [txs EXCEPT ![c] = "open"]

Commit(c) ==
  /\ Free(c) /\ txs[c] = "open"
  /\ db' = [i \in Ids |-> IF txw[c][i] = Untouched THEN db[i] ELSE txw[c][i]]
  /\ committed' = [i \in Ids |-> IF txw[c][i] \in Rows THEN committed[i] \cup {txw[c][i]} ELSE committed[i]]
  /\ txs' = [txs EXCEPT ![c] = "none"]
  /\ txw' = [txw EXCEPT ![c] = NoWrites]
  /\ Outside(db' # db)
  /\ UNCHANGED <<cache, ops>>

\* ROLLBACK, of an open transaction or of one a failed statement aborted
Rollback(c) ==
  /\ Free(c) /\ txs[c] \in {"open", "aborted"}
  /\ txs' = [txs EXCEPT ![c] = "none"]
  /\ txw' = [txw EXCEPT ![c] = NoWrites]
  /\ Outside(FALSE)
  /\ UNCHANGED <<db, cache, committed, ops>>

\* `.await?` on a statement that fails: the function returns the error and
\* sends nothing more.  A statement that fails on a transaction leaves it
\* aborted: it still belongs to the caller, with what it wrote and locked,
\* and takes nothing but ROLLBACK.
AbortTx(c, e) ==
  IF e = "tx"
  THEN /\ txs' = [txs EXCEPT ![c] = "aborted"]
       /\ UNCHANGED txw
  ELSE UNCHANGED <<txs, txw>>

\* Caller c can begin a repository call: it runs none, and it holds no
\* aborted transaction (a handler that got the error of a statement gives
\* its transaction up before anything else).
Ready(c) == Free(c) /\ txs[c] # "aborted"

\* the executors a caller can hand to a read
Execs(c) == IF txs[c] = "open" THEN {"pool", "tx"} ELSE {"pool"}

\* ------------------------------------------------------------- get_many
\* mutant: a get_many that does not find every id fails
Finish_MissIsError(f) ==
  CASE f.op = "get_many" ->
         IF Len(f.found_collections) < Len(f.collection_ids)
         THEN [f EXCEPT !.pc = "done", !.result = Err("NotFound")]
         ELSE [f EXCEPT !.pc = "done", !.result = Ok(f.found_collections)]
    [] f.op = "get" ->
         [f EXCEPT !.pc = "done",
                   !.result = OkOpt(IF f.found_collections = <<>> THEN None
                                 ELSE Head(f.found_collections))]
    [] f.op = "remove" ->
         IF f.found_collections = <<>>
         THEN [f EXCEPT !.pc = "done", !.result = OkOpt(None)]
         ELSE [f EXCEPT !.pc = "delete_mods"]

\* What the caller of get_many does with Ok(found_collections):
\*   get_many: the result of the call;
\*   get:      .map(|x| x.into_iter().next());
\*   remove:   if let Some(collection) = collection { ... } else { Ok(None) }.
Finish(f) ==
  CASE f.op = "get_many" -> [f EXCEPT !.pc = "done", !.result = Ok(f.found_collections)]
    [] f.op = "get" ->
         [f EXCEPT !.pc = "done",
                   !.result = OkOpt(IF f.found_collections = <<>> THEN None
                                 ELSE Head(f.found_collections))]
    [] f.op = "remove" ->
         IF f.found_collections = <<>>
         THEN [f EXCEPT !.pc = "done", !.result = OkOpt(None)]
         ELSE [f EXCEPT !.pc = "delete_mods"]

\* the call issued the commands of cmds, which succeeded
Logged(f, cmds) == [f EXCEPT !.log = @ \o [n \in 1..Len(cmds) |-> Done(cmds[n])]]

\* The call issued command cmd and it failed: `?` returns the error e.
Fail(f, cmd, e) ==
  [f EXCEPT !.pc = "done", !.result = Err(e), !.log = Append(@, Failed(cmd))]

\* mutant: a snapshot already in found_collections is not pushed again
RECURSIVE ScanReply_Dedups(_, _, _)
ScanReply_Dedups(reply, remaining, found) ==
  IF reply = <<>> THEN [remaining |-> remaining, found |-> found]
  ELSE LET x == Head(reply)
           collection == IF x = None THEN None ELSE FromJson(x)
       IN IF collection # None
          THEN ScanReply_Dedups(Tail(reply), Retain(remaining, collection.id),
                                IF collection \in Range(found) THEN found
                                ELSE Append(found, collection))
          ELSE ScanReply_Dedups(Tail(reply), remaining, found)

\* The loop over the MGET reply: a value that deserializes takes its id out
\* of remaining_collections (by the id inside the snapshot) and is pushed to
\* found_collections.
RECURSIVE ScanReply(_, _, _)
ScanReply(reply, remaining, found) ==
  IF reply = <<>> THEN [remaining |-> remaining, found |-> found]
  ELSE LET x == Head(reply)
           collection == IF x = None THEN None ELSE FromJson(x)
       IN IF collection # None
          THEN ScanReply(Tail(reply), Retain(remaining, collection.id), Append(found, collection))
          ELSE ScanReply(Tail(reply), remaining, found)

\* MGET of one key: Option<String>
Mget(k) == IF cache[k] = Absent THEN None ELSE cache[k].val

\* the keys of the MGET, in request order
MgetReply(ids) == [n \in 1..Len(ids) |-> Mget(Key(ids[n]))]

\* the snapshot a reader deserializes from key k, or None
CacheSnapshot(k) == IF cache[k] = Absent THEN None ELSE FromJson(cache[k].val)

\* The call o(ids, e) of caller c when `redis.get().await` has returned a
\* connection, with the two local vectors.
Begin(c, o, ids, e) ==
  [Logged([Idle EXCEPT !.op = o, !.collection_ids = ids, !.exec = e,
                       !.remaining_collections = ids, !.alone = StartsAlone(c)],
          <<"checkout">>)
     EXCEPT !.pc = "mget"]

\* `redis.get().await?` fails: the call returns the error
BeginFail(c, o, ids, e) ==
  Fail([Idle EXCEPT !.op = o, !.collection_ids = ids, !.exec = e,
                    !.alone = StartsAlone(c)], "checkout", "Redis")

\* mutant: a value that does not deserialize fails the call
FastPath_GarbledIsFatal(f) ==
  LET ids == f.collection_ids
      s == ScanReply(MgetReply(ids), f.remaining_collections, f.found_collections)
      g == Logged([f EXCEPT !.remaining_collections = s.remaining,
                            !.found_collections = s.found,
                            !.cached = [n \in 1..Len(ids) |-> CacheSnapshot(Key(ids[n]))]],
                  <<"MGET">>)
  IN IF \E n \in 1..Len(ids) : Mget(Key(ids[n])) # None /\ g.cached[n] = None
     THEN [g EXCEPT !.pc = "done", !.result = Err("Json")]
     ELSE IF s.remaining = <<>> THEN Finish(g) ELSE [g EXCEPT !.pc = "select"]

\* mutant: the existence check of remove reads the durable tier whatever the
\* MGET returned
FastPath_RemoveSkipsCache(f) ==
  LET ids == f.collection_ids
      s == IF f.op = "remove" THEN [remaining |-> ids, found |-> <<>>]
           ELSE ScanReply(MgetReply(ids), f.remaining_collections, f.found_collections)
      g == Logged([f EXCEPT !.remaining_collections = s.remaining,
                            !.found_collections = s.found,
                            !.cached = [n \in 1..Len(ids) |-> CacheSnapshot(Key(ids[n]))]],
                  <<"MGET">>)
  IN IF s.remaining = <<>> THEN Finish(g) ELSE [g EXCEPT !.pc = "select"]

\* The fast path of get_many from the reply of the MGET to the end of the
\* loop over it.
FastPath(f) ==
  LET ids == f.collection_ids
      s == ScanReply(MgetReply(ids), f.remaining_collections, f.found_collections)
      g == Logged([f EXCEPT !.remaining_collections = s.remaining,
                            !.found_collections = s.found,
                            !.cached = [n \in 1..Len(ids) |-> CacheSnapshot(Key(ids[n]))]],
                  <<"MGET">>)
  IN IF s.remaining = <<>> THEN Finish(g) ELSE [g EXCEPT !.pc = "select"]

\* mutant: the empty request checks a connection out and runs the fast path
GetManyEmpty_ReadsCache(c) ==
  /\ Ready(c) /\ ops < MaxOps
  /\ \E e \in Execs(c) : Step(c, Begin(c, "get_many", <<>>, e), TRUE)
  /\ ops' = ops + 1
  /\ UNCHANGED <<db, txs, txw, cache, committed>>

\* if collection_ids.is_empty() { return Ok(Vec::new()); }
GetManyEmpty(c) ==
  /\ Ready(c) /\ ops < MaxOps
  /\ \E e \in Execs(c) :
       Step(c, [Idle EXCEPT !.pc = "done", !.op = "get_many", !.exec = e,
                            !.alone = StartsAlone(c), !.result = Ok(<<>>)], TRUE)
  /\ ops' = ops + 1
  /\ UNCHANGED <<db, txs, txw, cache, committed>>

\* Collection::get_many(ids, e, redis) by caller c, up to the connection
GetMany(c, ids, e) ==
  /\ Ready(c) /\ e \in Execs(c)
  /\ Step(c, Begin(c, "get_many", ids, e), TRUE)
  /\ ops' = ops + 1
  /\ UNCHANGED <<db, txs, txw, cache, committed>>

CallGetMany(c) ==
  /\ ops < MaxOps
  /\ \E ids \in SeqsUpTo(CallIds, MaxReq) \ {<<>>}, e \in Execs(c) : GetMany(c, ids, e)

\* mutant: a get_many that gets no connection goes on to the durable query
CallGetManyFail_FallsBack(c) ==
  /\ Ready(c) /\ ops < MaxOps
  /\ \E ids \in SeqsUpTo(CallIds, MaxReq) \ {<<>>}, e \in Execs(c) :
       Step(c, [BeginFail(c, "get_many", ids, e)
                  EXCEPT !.pc = "select", !.result = None,
                         !.remaining_collections = ids], TRUE)
  /\ ops' = ops + 1
  /\ UNCHANGED <<db, txs, txw, cache, committed>>

\* redis.get().await? fails, in get_many
CallGetManyFail(c) ==
  /\ Ready(c) /\ ops < MaxOps
  /\ \E ids \in SeqsUpTo(CallIds, MaxReq) \ {<<>>}, e \in Execs(c) :
       Step(c, BeginFail(c, "get_many", ids, e), TRUE)
  /\ ops' = ops + 1
  /\ UNCHANGED <<db, txs, txw, cache, committed>>

\* Collection::get(id, e, redis): Collection::get_many(&[id], executor, redis)
Get(c, id, e) ==
  /\ Ready(c) /\ e \in Execs(c)
  /\ Step(c, Begin(c, "get", <<id>>, e), TRUE)
  /\ ops' = ops + 1
  /\ UNCHANGED <<db, txs, txw, cache, committed>>

CallGet(c) ==
  /\ ops < MaxOps
  /\ \E id \in CallIds, e \in Execs(c) : Get(c, id, e)

CallGetFail(c) ==
  /\ Ready(c) /\ ops < MaxOps
  /\ \E id \in CallIds, e \in Execs(c) : Step(c, BeginFail(c, "get", <<id>>, e), TRUE)
  /\ ops' = ops + 1
  /\ UNCHANGED <<db, txs, txw, cache, committed>>

\* the MGET returns its reply and the loop over it runs
MgetOk(c) ==
  /\ At(c, "mget")
  /\ Step(c, FastPath(frame[c]), FALSE)
  /\ UNCHANGED <<db, txs, txw, cache, committed, ops>>

\* the MGET fails: `?` returns the error
MgetFail(c) ==
  /\ At(c, "mget")
  /\ Step(c, Fail(frame[c], "MGET", "Redis"), FALSE)
  /\ UNCHANGED <<db, txs, txw, cache, committed, ops>>

\* The row mapping of the SELECT: ARRAY_AGG(DISTINCT cm.mod_id) yields the
\* distinct mod ids (Postgres sorts them to make them distinct).
FromRow(id, row) ==
  Collection(id, row.title, row.icon_url, row.color, SortedSeq(Range(row.mods)))

\* mutant: one row for every occurrence of an id in the request
SelectRows_PerOccurrence(view, ids) ==
  LET asked == SelectSeq(ids, LAMBDA i : view[i] # NoRow)
  IN {[n \in 1..Len(asked) |-> FromRow(asked[n], view[asked[n]])]}

\* SELECT ... WHERE c.id = ANY($1) GROUP BY c.id: one row per id that has
\* one, in an order the database chooses.
SelectRows(view, ids) ==
  LET hit == {i \in Range(ids) : view[i] # NoRow}
  IN {[n \in 1..Len(order) |-> FromRow(order[n], view[order[n]])] : order \in Orderings(hit)}

\* mutant: a remove that finds nothing deletes the key all the same
SelectOk_ClearsOnMiss(c) ==
  /\ At(c, "select")
  /\ LET f == frame[c]
     IN \E rows \in SelectRows(View(c, f.exec), f.remaining_collections) :
          LET g == Logged([f EXCEPT !.db_collections = rows, !.wb = 0], <<"SELECT">>)
          IN /\ Step(c, IF rows = <<>> THEN Finish(g) ELSE [g EXCEPT !.pc = "set"], FALSE)
             /\ cache' = IF rows = <<>> /\ f.op = "remove"
                         THEN [cache EXCEPT ![Key(f.collection_ids[1])] = Absent]
                         ELSE cache
  /\ UNCHANGED <<db, txs, txw, committed, ops>>

\* the SELECT of the ids left in remaining_collections, fetch_many + try_collect
SelectOk(c) ==
  /\ At(c, "select")
  /\ LET f == frame[c]
     IN \E rows \in SelectRows(View(c, f.exec), f.remaining_collections) :
          LET g == Logged([f EXCEPT !.db_collections = rows, !.wb = 0], <<"SELECT">>)
          IN Step(c, IF rows = <<>> THEN Finish(g) ELSE [g EXCEPT !.pc = "set"], FALSE)
  /\ UNCHANGED <<db, txs, txw, cache, committed, ops>>

\* the SELECT fails: `?` returns the error
SelectFail(c) ==
  /\ At(c, "select")
  /\ Step(c, Fail(frame[c], "SELECT", "Database"), FALSE)
  /\ AbortTx(c, frame[c].exec)
  /\ UNCHANGED <<db, cache, committed, ops>>

\* mutant: the key is made of the requested id at the position of the row
SetOk_KeyOfRequest(c) ==
  /\ At(c, "set")
  /\ LET f == frame[c]
         collection == f.db_collections[f.wb + 1]
         g == Logged([f EXCEPT !.found_collections = Append(@, collection),
                               !.wb = @ + 1], <<"SET">>)
     IN /\ cache' = [cache EXCEPT ![Key(f.remaining_collections[f.wb + 1])] =
                                     Entry(ToJson(collection), DEFAULT_EXPIRY)]
        /\ Step(c, IF g.wb = Len(g.db_collections) THEN Finish(g) ELSE g, TRUE)
  /\ UNCHANGED <<db, txs, txw, committed, ops>>

\* mutant: the SET carries no expiry
SetOk_NoExpiry(c) ==
  /\ At(c, "set")
  /\ LET f == frame[c]
         collection == f.db_collections[f.wb + 1]
         g == Logged([f EXCEPT !.found_collections = Append(@, collection),
                               !.wb = @ + 1], <<"SET">>)
     IN /\ cache' = [cache EXCEPT ![Key(collection.id)] = Entry(ToJson(collection), 0)]
        /\ Step(c, IF g.wb = Len(g.db_collections) THEN Finish(g) ELSE g, TRUE)
  /\ UNCHANGED <<db, txs, txw, committed, ops>>

\* for collection in db_collections { SET key json EX DEFAULT_EXPIRY;
\*                                    found_collections.push(collection) }:
\* one turn of the loop
SetOk(c) ==
  /\ At(c, "set")
  /\ LET f == frame[c]
         collection == f.db_collections[f.wb + 1]
         g == Logged([f EXCEPT !.found_collections = Append(@, collection),
                               !.wb = @ + 1], <<"SET">>)
     IN /\ cache' = [cache EXCEPT ![Key(collection.id)] = Entry(ToJson(collection), DEFAULT_EXPIRY)]
        /\ Step(c, IF g.wb = Len(g.db_collections) THEN Finish(g) ELSE g, TRUE)
  /\ UNCHANGED <<db, txs, txw, committed, ops>>

\* mutant: a failed SET takes back the keys the call has written
SetFail_RollsBack(c) ==
  /\ At(c, "set")
  /\ Step(c, Fail(frame[c], "SET", "Redis"), TRUE)
  /\ cache' = [k \in Keys |->
                IF \E j \in 1..frame[c].wb : k = Key(frame[c].db_collections[j].id)
                THEN Absent ELSE cache[k]]
  /\ UNCHANGED <<db, txs, txw, committed, ops>>

\* a SET of the write-back loop fails: `?` returns the error
SetFail(c) ==
  /\ At(c, "set")
  /\ Step(c, Fail(frame[c], "SET", "Redis"), FALSE)
  /\ UNCHANGED <<db, txs, txw, cache, committed, ops>>

\* ---------------------------------------------------------------- insert
\* CollectionBuilder::insert: the struct it builds
Build(b) == Collection(b.collection_id, b.title, None, None, b.projects)

\* The pair (collection_id, mod_id) is in collections_mods already: the
\* table has the two columns as its key (spec 3: "no duplicate pairs").
Conflict(mods, mod_id) == mod_id \in Range(mods)

\* mutant: the INSERT of a pair adds a row also on a conflict
InsertMod_AlwaysInserts(mods, mod_id) == Append(mods, mod_id)

\* INSERT INTO collections_mods (collection_id, mod_id) VALUES ($1, $2)
\* ON CONFLICT DO NOTHING
InsertMod(mods, mod_id) == IF Conflict(mods, mod_id) THEN mods ELSE Append(mods, mod_id)

\* INSERT INTO collections (id, user_id, title, description, created,
\* icon_url, status): the row, with no collections_mods rows yet
InsertedRow(s) ==
  [title |-> s.title, icon_url |-> s.icon_url, color |-> None, mods |-> <<>>]

\* the call insert(b) of caller c when it issues its first statement
BeginInsert(c, b) ==
  [Idle EXCEPT !.op = "insert", !.collection_ids = <<b.collection_id>>,
               !.exec = "tx", !.builder = b, !.alone = StartsAlone(c)]

\* the INSERTs into collections_mods the call has run
ModsInserted(f) == Len(f.log) - 1

\* after a statement of insert: the loop goes on, or Ok(self.collection_id)
InsertNext(f) ==
  IF ModsInserted(f) = Len(f.builder.projects)
  THEN [f EXCEPT !.pc = "done", !.result = OkId(f.builder.collection_id)]
  ELSE [f EXCEPT !.pc = "insert_mod"]

\* CollectionBuilder::insert(b, transaction) by caller c, up to the INSERT
\* INTO collections
Insert(c, b) ==
  /\ c \in Writers /\ Ready(c)
  /\ LET s == Build(b)
     IN /\ View(c, "tx")[s.id] = NoRow
        /\ ~Locked(c, s.id)
        /\ txw' = [txw EXCEPT ![c][s.id] = InsertedRow(s)]
        /\ Step(c, InsertNext(Logged(BeginInsert(c, b), <<"INSERT">>)), TRUE)
  /\ txs' = Begun(c)
  /\ ops' = ops + 1
  /\ UNCHANGED <<db, cache, committed>>

\* mutant: insert writes the new collection through to the cache
InsertOk_WriteThrough(c) ==
  /\ c \in Writers /\ Ready(c) /\ ops < MaxOps
  /\ \E b \in Builders :
       LET s == Build(b)
       IN /\ View(c, "tx")[s.id] = NoRow
          /\ ~Locked(c, s.id)
          /\ txw' = [txw EXCEPT ![c][s.id] = InsertedRow(s)]
          /\ cache' = [cache EXCEPT ![Key(s.id)] = Entry(ToJson(s), DEFAULT_EXPIRY)]
          /\ Step(c, InsertNext(Logged(BeginInsert(c, b), <<"INSERT">>)), TRUE)
  /\ txs' = Begun(c)
  /\ ops' = ops + 1
  /\ UNCHANGED <<db, committed>>

\* an insert of a concurrent caller
InsertOk(c) == ops < MaxOps /\ \E b \in Builders : Insert(c, b)

\* The INSERT INTO collections fails, as it does on an id that has a row:
\* `?` returns the error.
InsertFail(c) ==
  /\ c \in Writers /\ Ready(c) /\ ops < MaxOps
  /\ \E b \in Builders : Step(c, Fail(BeginInsert(c, b), "INSERT", "Database"), TRUE)
  /\ txs' = [txs EXCEPT ![c] = "aborted"]
  /\ ops' = ops + 1
  /\ UNCHANGED <<db, txw, cache, committed>>

\* one turn of `for project_id in self.projects.iter()`
InsertModOk(c) ==
  /\ At(c, "insert_mod")
  /\ LET f == frame[c]
         id == f.builder.collection_id
         project_id == f.builder.projects[ModsInserted(f) + 1]
     IN /\ txw' = [txw EXCEPT ![c][id].mods = InsertMod(@, project_id)]
        /\ Step(c, InsertNext(Logged(f, <<"INSERT_MOD">>)), FALSE)
  /\ UNCHANGED <<db, txs, cache, committed, ops>>

\* an INSERT INTO collections_mods fails: `?` returns the error
InsertModFail(c) ==
  /\ At(c, "insert_mod")
  /\ Step(c, Fail(frame[c], "INSERT_MOD", "Database"), FALSE)
  /\ AbortTx(c, "tx")
  /\ UNCHANGED <<db, cache, committed, ops>>

\* ---------------------------------------------------------------- remove
\* let collection = Self::get(id, &mut *transaction, redis).await?;
\* up to the connection
Remove(c, id) ==
  /\ c \in Writers /\ Ready(c)
  /\ Step(c, Begin(c, "remove", <<id>>, "tx"), TRUE)
  /\ txs' = Begun(c)
  /\ ops' = ops + 1
  /\ UNCHANGED <<db, txw, cache, committed>>

\* a remove of a concurrent caller
CallRemove(c) == ops < MaxOps /\ \E id \in CallIds : Remove(c, id)

\* redis.get().await? fails, in the get of remove
CallRemoveFail(c) ==
  /\ c \in Writers /\ Ready(c) /\ ops < MaxOps
  /\ \E id \in CallIds : Step(c, BeginFail(c, "remove", <<id>>, "tx"), TRUE)
  /\ txs' = Begun(c)
  /\ ops' = ops + 1
  /\ UNCHANGED <<db, txw, cache, committed>>

\* the `id` argument of remove / clear_cache
IdArg(f) == f.collection_ids[1]

\* DELETE FROM collections_mods WHERE collection_id = $1
DeleteMods(row) == IF row = NoRow THEN NoRow ELSE [row EXCEPT !.mods = <<>>]

\* the first DELETE of remove
DeleteModsOk(c) ==
  /\ At(c, "delete_mods")
  /\ LET id == IdArg(frame[c])
         row == View(c, "tx")[id]
     IN /\ ~Locked(c, id)
        /\ txw' = IF row = NoRow \/ row.mods = <<>> THEN txw
                  ELSE [txw EXCEPT ![c][id] = DeleteMods(row)]
  /\ Step(c, [Logged(frame[c], <<"DELETE_MODS">>) EXCEPT !.pc = "delete_row"], FALSE)
  /\ UNCHANGED <<db, txs, cache, committed, ops>>

\* the first DELETE fails: `?` returns the error
DeleteModsFail(c) ==
  /\ At(c, "delete_mods")
  /\ Step(c, Fail(frame[c], "DELETE_MODS", "Database"), FALSE)
  /\ AbortTx(c, "tx")
  /\ UNCHANGED <<db, cache, committed, ops>>

\* mutant: the DELETE has no WHERE clause
DeleteRowOk_AllRows(c) ==
  /\ At(c, "delete_row")
  /\ ~Locked(c, IdArg(frame[c]))
  /\ txw' = [txw EXCEPT ![c] = [i \in Ids |-> IF View(c, "tx")[i] = NoRow THEN @[i] ELSE NoRow]]
  /\ Step(c, [Logged(frame[c], <<"DELETE_ROW">>) EXCEPT !.pc = "clear"], FALSE)
  /\ UNCHANGED <<db, txs, cache, committed, ops>>

\* DELETE FROM collections WHERE id = $1
DeleteRowOk(c) ==
  /\ At(c, "delete_row")
  /\ LET id == IdArg(frame[c])
     IN /\ ~Locked(c, id)
        /\ txw' = IF View(c, "tx")[id] = NoRow THEN txw ELSE [txw EXCEPT ![c][id] = NoRow]
  /\ Step(c, [Logged(frame[c], <<"DELETE_ROW">>) EXCEPT !.pc = "clear"], FALSE)
  /\ UNCHANGED <<db, txs, cache, committed, ops>>

\* mutant: remove goes on to clear_cache although the DELETE failed
DeleteRowFail_StillClears(c) ==
  /\ At(c, "delete_row")
  /\ Step(c, [Fail(frame[c], "DELETE_ROW", "Database")
                EXCEPT !.pc = "clear", !.result = None], FALSE)
  /\ UNCHANGED <<db, txs, txw, cache, committed, ops>>

\* the second DELETE fails: `?` returns the error
DeleteRowFail(c) ==
  /\ At(c, "delete_row")
  /\ Step(c, Fail(frame[c], "DELETE_ROW", "Database"), FALSE)
  /\ AbortTx(c, "tx")
  /\ UNCHANGED <<db, cache, committed, ops>>

\* ----------------------------------------------------------- clear_cache
\* The id clear_cache is called with: remove passes collection.id, the id of
\* the collection its get returned.
ClearId(f) == IF f.op = "remove" THEN Head(f.found_collections).id ELSE IdArg(f)

\* DEL key; Ok(()).  remove then returns Ok(Some(())).
ClearDone(f) ==
  [Logged(f, <<"DEL">>) EXCEPT !.pc = "done",
                               !.result = OkOpt(IF f.op = "remove" THEN Some ELSE Unit)]

\* clear_cache at the end of remove: redis.get().await returns a connection
ClearCheckoutOk(c) ==
  /\ At(c, "clear")
  /\ Step(c, [Logged(frame[c], <<"checkout">>) EXCEPT !.pc = "del"], FALSE)
  /\ UNCHANGED <<db, txs, txw, cache, committed, ops>>

\* redis.get().await? fails in the clear_cache of remove
ClearCheckoutFail(c) ==
  /\ At(c, "clear")
  /\ Step(c, Fail(frame[c], "checkout", "Redis"), FALSE)
  /\ UNCHANGED <<db, txs, txw, cache, committed, ops>>

\* mutant: clear_cache returns Ok without deleting the key
ClearOk_KeepsKey(c) ==
  /\ At(c, "del")
  /\ Step(c, ClearDone(frame[c]), TRUE)
  /\ UNCHANGED <<db, txs, txw, cache, committed, ops>>

\* the DEL of clear_cache
ClearOk(c) ==
  /\ At(c, "del")
  /\ cache' = [cache EXCEPT ![Key(ClearId(frame[c]))] = Absent]
  /\ Step(c, ClearDone(frame[c]), TRUE)
  /\ UNCHANGED <<db, txs, txw, committed, ops>>

\* mutant: a failed DEL ends the transaction, as a failed DELETE does
ClearFail_AbortsTx(c) ==
  /\ At(c, "del")
  /\ Step(c, Fail(frame[c], "DEL", "Redis"), FALSE)
  /\ AbortTx(c, frame[c].exec)
  /\ UNCHANGED <<db, cache, committed, ops>>

\* the DEL fails: `?` returns the error
ClearFail(c) ==
  /\ At(c, "del")
  /\ Step(c, Fail(frame[c], "DEL", "Redis"), FALSE)
  /\ UNCHANGED <<db, txs, txw, cache, committed, ops>>

\* clear_cache called by a collaborator, up to the connection
CallClearCache(c) ==
  /\ Ready(c) /\ ops < MaxOps
  /\ \E id \in CallIds :
       Step(c, [Logged([Idle EXCEPT !.op = "clear_cache", !.collection_ids = <<id>>,
                                    !.alone = StartsAlone(c)], <<"checkout">>)
                  EXCEPT !.pc = "del"], TRUE)
  /\ ops' = ops + 1
  /\ UNCHANGED <<db, txs, txw, cache, committed>>

\* redis.get().await? fails in clear_cache
CallClearCacheFail(c) ==
  /\ Ready(c) /\ ops < MaxOps
  /\ \E id \in CallIds :
       Step(c, Fail([Idle EXCEPT !.op = "clear_cache", !.collection_ids = <<id>>,
                                 !.alone = StartsAlone(c)], "checkout", "Redis"), TRUE)
  /\ ops' = ops + 1
  /\ UNCHANGED <<db, txs, txw, cache, committed>>

\* ------------------------------------------------------------ environment
\* Redis drops a key whose expiry has passed.
Expire(k) ==
  /\ ret = NoRet
  /\ cache[k] # Absent /\ cache[k].ex > 0
  /\ cache' = [cache EXCEPT ![k] = Absent]
  /\ Outside(TRUE)
  /\ UNCHANGED <<db, txs, txw, committed, ops>>

\* The caller takes the value its call returned; the next step of anyone
\* follows it.
Return ==
  /\ ret # NoRet
  /\ ret' = NoRet
  /\ UNCHANGED <<db, txs, txw, cache, frame, committed, ops>>

Next ==
  \/ \E c \in Callers :
       \/ Commit(c) \/ Rollback(c)
       \/ GetManyEmpty(c) \/ CallGetMany(c) \/ CallGetManyFail(c)
       \/ CallGet(c) \/ CallGetFail(c)
       \/ MgetOk(c) \/ MgetFail(c)
       \/ SelectOk(c) \/ SelectFail(c) \/ SetOk(c) \/ SetFail(c)
       \/ InsertOk(c) \/ InsertFail(c) \/ InsertModOk(c) \/ InsertModFail(c)
       \/ CallRemove(c) \/ CallRemoveFail(c)
       \/ DeleteModsOk(c) \/ DeleteModsFail(c) \/ DeleteRowOk(c) \/ DeleteRowFail(c)
       \/ ClearCheckoutOk(c) \/ ClearCheckoutFail(c) \/ ClearOk(c) \/ ClearFail(c)
       \/ CallClearCache(c) \/ CallClearCacheFail(c)
  \/ \E k \in Keys : Expire(k)
  \/ Return

Spec == Init /\ [][Next]_vars

\* ============================================================ properties
\* the call that has just returned is a call of op
Returned(op) == ret # NoRet /\ ret.call.op = op

\* the call issued cmd
Issued(f, cmd) == \E n \in DOMAIN f.log : f.log[n].cmd = cmd

\* the call issued cmd and cmd failed
IssuedFailed(f, cmd) == \E n \in DOMAIN f.log : f.log[n] = Failed(cmd)

\* the call returned Ok(v), v an Option or ()
ReturnedOk(f, v) == f.result.kind = "Ok" /\ f.result.opt = v

\* C1 (delete invalidation, P5): when remove(id) returns Some and no other
\* call ran during it, the cache key of id is absent, also when the cache held
\* a snapshot of id before the call; a get that follows finds no entry.
C1_DeleteInvalidation ==
  (Returned("remove") /\ ret.call.alone /\ ReturnedOk(ret.call, Some))
    => cache[Key(IdArg(ret.call))] = Absent

\* remove returned Some after its existence check was served from the cache
\* (no SELECT): the cache held a snapshot of id before the call.
C1_Witness ==
  /\ Returned("remove") /\ ret.call.alone /\ ReturnedOk(ret.call, Some)
  /\ ~Issued(ret.call, "SELECT")
  /\ cache[Key(IdArg(ret.call))] = Absent

\* C2: every snapshot in the cache (but for what an earlier release left
\* there) equals a state of its entity that was durably committed; the cache
\* never holds data written only inside an uncommitted or rolled-back
\* transaction.
C2_CacheHoldsOnlyCommitted ==
  \A i \in Ids :
    LET s == CacheSnapshot(Key(i))
    IN (s # None /\ cache[Key(i)] \notin Left(i))
         => \E row \in committed[s.id] : FromRow(s.id, row) = s

\* the ids of a request are distinct
Distinct(ids) == \A m, n \in DOMAIN ids : m # n => ids[m] # ids[n]

\* what a durable read of the returned call sees when the call returns
ViewOf(r) == View(r.caller, r.call.exec)

\* the entities of result that have id
WithId(result, id) == {n \in DOMAIN result : result[n].id = id}

\* C3 (batch completeness under partial cache hit, P3): a get_many of distinct
\* ids returns, for each id whose key held a deserializable snapshot, that
\* snapshot (also when it differs from the durable row) and does not send the
\* id to the durable query; every other id is sent to the durable query, and
\* the result holds its current durable row if it has one.
C3_PartialHit ==
  (Returned("get_many") /\ ret.call.result.kind = "Ok" /\ Distinct(ret.call.collection_ids))
    => LET f == ret.call
           ids == f.collection_ids
           result == f.result.val
       IN \A n \in DOMAIN ids :
            /\ Cardinality(WithId(result, ids[n])) <= 1
            /\ f.cached[n] # None =>
                 /\ f.cached[n] \in Range(result)
                 /\ ids[n] \notin Range(f.remaining_collections)
            /\ f.cached[n] = None =>
                 /\ ids[n] \in Range(f.remaining_collections)
                 /\ f.alone =>
                      IF ViewOf(ret)[ids[n]] = NoRow THEN WithId(result, ids[n]) = {}
                      ELSE FromRow(ids[n], ViewOf(ret)[ids[n]]) \in Range(result)

\* one id served from a stale snapshot (its durable row is gone or differs),
\* the other read from the durable tier
C3_Witness ==
  /\ Returned("get_many") /\ ret.call.result.kind = "Ok" /\ ret.call.alone
  /\ Distinct(ret.call.collection_ids)
  /\ \E m, n \in DOMAIN ret.call.collection_ids :
       LET ids == ret.call.collection_ids
       IN /\ ret.call.cached[m] # None
          /\ ret.call.cached[m] \in Range(ret.call.result.val)
          /\ \/ ViewOf(ret)[ids[m]] = NoRow
             \/ FromRow(ids[m], ViewOf(ret)[ids[m]]) # ret.call.cached[m]
          /\ ret.call.cached[n] = None
          /\ ViewOf(ret)[ids[n]] # NoRow
          /\ FromRow(ids[n], ViewOf(ret)[ids[n]]) \in Range(ret.call.result.val)

\* C4 (batch completeness under full cache miss, P2): a get_many none of whose
\* ids is cached returns exactly the requested ids that have a durable row,
\* each once, whatever the order of the request and however often an id is
\* repeated; an id without a row is left out, and only a failed command makes
\* the call an error.
C4_FullMiss ==
  Returned("get_many") =>
    LET f == ret.call
        ids == f.collection_ids
        durable == {i \in Range(ids) : ViewOf(ret)[i] # NoRow}
    IN /\ (\A n \in DOMAIN f.log : f.log[n].ok) => f.result.kind = "Ok"
       /\ (f.result.kind = "Ok" /\ f.alone /\ \A n \in DOMAIN ids : f.cached[n] = None)
            => /\ Range(f.result.val) = {FromRow(i, ViewOf(ret)[i]) : i \in durable}
               /\ Len(f.result.val) = Cardinality(durable)

\* a request that repeats an id with a durable row, and nothing cached: the
\* row is returned once
C4_Witness ==
  /\ Returned("get_many") /\ ret.call.result.kind = "Ok" /\ ret.call.alone
  /\ ~Distinct(ret.call.collection_ids)
  /\ \A n \in DOMAIN ret.call.collection_ids : ret.call.cached[n] = None
  /\ Len(ret.call.result.val) = 1

\* the call of c after the step: the one it just returned, or the one it runs
NewFrame(c) == IF ret'.caller = c THEN ret'.call ELSE frame'[c]

\* the step is the MGET of a remove of c, and succeeds
BeginsRemove(c) ==
  At(c, "mget") /\ frame[c].op = "remove" /\ NewFrame(c).cached # <<>>

\* the log of a call that ran the commands of cmds, all with success
AllDone(cmds) == [n \in 1..Len(cmds) |-> Done(cmds[n])]

\* every command the call issued succeeded
NoFailure(f) == \A n \in DOMAIN f.log : f.log[n].ok

\* key k holds a value that does not deserialize
Garbled(k) == cache[k] # Absent /\ FromJson(cache[k].val) = None

\* A remove of c that finds its id in neither tier: no snapshot at the MGET
\* sends it to the durable lookup, and a lookup that sees no row returns
\* Ok(None) after checkout, MGET and SELECT alone, with both tiers as before.
C5_Step(c) ==
  /\ (Free(c) /\ NewFrame(c).op = "remove") => UNCHANGED <<db, txw, cache>>
  /\ BeginsRemove(c) =>
       /\ UNCHANGED <<db, txw, cache>>
       /\ CacheSnapshot(Key(IdArg(NewFrame(c)))) = None =>
            /\ NewFrame(c).pc = "select"
            /\ NewFrame(c).log = AllDone(<<"checkout", "MGET">>)
  /\ (/\ At(c, "select") /\ frame[c].op = "remove"
      /\ View(c, frame[c].exec)[IdArg(frame[c])] = NoRow
      /\ NewFrame(c).log # frame[c].log /\ NoFailure(NewFrame(c))) =>
       /\ ret'.caller = c /\ ReturnedOk(NewFrame(c), None)
       /\ NewFrame(c).log = AllDone(<<"checkout", "MGET", "SELECT">>)
       /\ UNCHANGED <<db, txw, cache>>
  /\ (ret'.caller = c /\ NewFrame(c).op = "remove" /\ ReturnedOk(NewFrame(c), None)) =>
       /\ NewFrame(c).log = AllDone(<<"checkout", "MGET", "SELECT">>)
       /\ UNCHANGED <<db, txw, cache>>

\* C5 (remove on a missing id, P6), amended: remove(id) for an id that has
\* neither a deserializable cache entry nor a durable row returns Ok(None),
\* issues no durable delete statement and no cache delete, and leaves both
\* tiers unchanged.
C5_RemoveMissing == [][\A c \in Callers : C5_Step(c)]_vars

\* a remove returned Ok(None) while other keys and rows exist
C5_Witness ==
  /\ Returned("remove") /\ ReturnedOk(ret.call, None) /\ ret.call.alone
  /\ ViewOf(ret)[IdArg(ret.call)] = NoRow
  /\ cache[Key(IdArg(ret.call))] # Absent
  /\ ~Issued(ret.call, "DELETE_ROW") /\ ~Issued(ret.call, "DEL")

\* C5 as stated: remove(id) for an id without a durable row never goes on to
\* the delete statements.  A stale snapshot under the id's key refutes it.
C5_AsStated ==
  [][\A c \in Callers :
       (BeginsRemove(c) /\ View(c, "tx")[IdArg(NewFrame(c))] = NoRow)
         => NewFrame(c).pc # "delete_mods"]_vars

\* C6 (empty input, P4): get_many of no ids returns the empty sequence and
\* issues no command on either tier: no checkout, no MGET, no SELECT, no SET.
C6_EmptyInput ==
  (Returned("get_many") /\ ret.call.collection_ids = <<>>)
    => ret.call.result = Ok(<<>>) /\ ret.call.log = <<>>

\* get_many of no ids returned while both tiers hold something
C6_Witness ==
  /\ Returned("get_many") /\ ret.call.collection_ids = <<>>
  /\ ret.call.result = Ok(<<>>)
  /\ \E i \in Ids : db[i] # NoRow /\ cache[Key(i)] # Absent

\* the call runs get_many
ReadsThrough(f) == f.op \in {"get_many", "get", "remove"}

\* C7 (cache error on the fast path): when the checkout or the MGET of a
\* get_many fails, the call fails with that error, the failed command is the
\* last one it issues (no SELECT, no SET, no retry), and nothing was found.
C7_FastPathError ==
  (ret # NoRet /\ ReadsThrough(ret.call) /\ ret.call.collection_ids # <<>>)
    => LET f == ret.call
       IN \A n \in {1, 2} :
            (n <= Len(f.log) /\ ~f.log[n].ok)
              => /\ f.log \in {<<Failed("checkout")>>, <<Done("checkout"), Failed("MGET")>>}
                 /\ f.result = Err("Redis")
                 /\ f.found_collections = <<>>
                 /\ f.db_collections = <<>>

\* the MGET of a get_many failed for ids of which one has a durable row
C7_Witness ==
  /\ Returned("get_many") /\ IssuedFailed(ret.call, "MGET")
  /\ ret.call.result.kind = "Err"
  /\ \E i \in Range(ret.call.collection_ids) : ViewOf(ret)[i] # NoRow

\* C8 (undeserializable value): a key whose value does not deserialize is
\* treated as a miss.  While a call runs undisturbed, the id of such a key is
\* in remaining_collections; the call fails only if a command fails; and when
\* it returns, an id that was not served from the cache and has a durable row
\* is in the result and its key holds the JSON of that row.
C8_GarbledIsMiss ==
  /\ \A c \in Callers :
       (frame[c].pc \in {"select", "set"} /\ frame[c].alone)
         => \A i \in Range(frame[c].collection_ids) :
              Garbled(Key(i)) => i \in Range(frame[c].remaining_collections)
  /\ (Returned("get_many") /\ ret.call.cached # <<>>)
       => LET f == ret.call
              ids == f.collection_ids
          IN /\ NoFailure(f) => f.result.kind = "Ok"
             /\ f.alone =>
                  \A n \in DOMAIN ids :
                    LET row == ViewOf(ret)[ids[n]]
                    IN /\ Garbled(Key(ids[n])) =>
                            /\ ids[n] \in Range(f.remaining_collections)
                            /\ Issued(f, "SELECT")
                            /\ f.result.kind = "Ok" => row = NoRow
                       /\ (f.result.kind = "Ok" /\ f.cached[n] = None /\ row # NoRow) =>
                            /\ FromRow(ids[n], row) \in Range(f.result.val)
                            /\ cache[Key(ids[n])] =
                                 Entry(ToJson(FromRow(ids[n], row)), DEFAULT_EXPIRY)

\* a call read a row for an id whose key holds a value that does not
\* deserialize, and is about to overwrite it
C8_Witness ==
  \E c \in Callers :
    /\ frame[c].pc = "set" /\ frame[c].alone /\ frame[c].wb = 0
    /\ Garbled(Key(frame[c].db_collections[1].id))
    /\ frame[c].db_collections[1].id \in Range(frame[c].remaining_collections)

\* C9 (partial write-back): when a SET of the write-back fails, the call
\* fails with that error; the keys of the entities written before it hold
\* their JSON with the default expiry, and the entities from the failed one
\* on are not cached by the call and not returned.
C9_PartialWriteBack ==
  (ret # NoRet /\ ReadsThrough(ret.call) /\ IssuedFailed(ret.call, "SET"))
    => LET f == ret.call
       IN /\ f.result = Err("Redis")
          /\ f.wb < Len(f.db_collections)
          /\ f.log[Len(f.log)] = Failed("SET")
          /\ f.alone =>
               \A j \in DOMAIN f.db_collections :
                 LET k == Key(f.db_collections[j].id)
                 IN IF j <= f.wb
                    THEN cache[k] = Entry(ToJson(f.db_collections[j]), DEFAULT_EXPIRY)
                    ELSE CacheSnapshot(k) = None

\* the second of two SETs failed
C9_Witness ==
  /\ Returned("get_many") /\ IssuedFailed(ret.call, "SET") /\ ret.call.alone
  /\ ret.call.wb = 1 /\ Len(ret.call.db_collections) = 2
  /\ CacheSnapshot(Key(ret.call.db_collections[1].id)) = ret.call.db_collections[1]
  /\ CacheSnapshot(Key(ret.call.db_collections[2].id)) = None

\* the step is a statement of an insert
Inserts == \E c \in Callers : NewFrame(c).op = "insert" /\ NewFrame(c).log # frame[c].log

\* the step is the SET of a write-back that stores under key k the collection
\* the call read with its SELECT
WritesBack(k) ==
  \E c \in Callers :
    /\ At(c, "set") /\ ReadsThrough(frame[c]) /\ Issued(frame[c], "SELECT")
    /\ LET collection == frame[c].db_collections[frame[c].wb + 1]
       IN k = Key(collection.id)
          /\ cache'[k] = Entry(ToJson(collection), DEFAULT_EXPIRY)

\* C10 (insert and the cache): an insert, successful or failed, leaves the
\* cache as it was; a key gets a value only by the write-back of a get_many
\* (direct, or through get or remove) that read the row from the durable tier.
C10_InsertLeavesCache ==
  [][/\ Inserts => cache' = cache
     /\ \A k \in Keys : (cache'[k] # cache[k] /\ cache'[k] # Absent) => WritesBack(k)]_vars

\* an insert returned its id, and the key of the id holds nothing
C10_Witness ==
  /\ Returned("insert") /\ ret.call.result = OkId(IdArg(ret.call))
  /\ cache[Key(IdArg(ret.call))] = Absent
  /\ ViewOf(ret)[IdArg(ret.call)] # NoRow

\* the durable rows a caller can see: committed, or written by a transaction
StoredRows ==
  ({db[i] : i \in Ids} \cup {txw[c][i] : c \in Callers, i \in Ids}) \ {NoRow, Untouched}

\* the entities a returned get or get_many hands to its caller
Entities(f) ==
  IF f.result.kind # "Ok" THEN {}
  ELSE IF f.op = "get_many" THEN Range(f.result.val)
  ELSE IF f.op = "get" /\ f.result.opt # None THEN {f.result.opt}
  ELSE {}

\* C11 (child-set deduplication, P7): an insert with a project list that
\* repeats ids leaves one collections_mods row per project id, and every
\* read, from the durable tier or from the cache, lists each project once.
C11_ChildSetDedup ==
  /\ \A row \in StoredRows : Distinct(row.mods)
  /\ \A k \in Keys : CacheSnapshot(k) # None => Distinct(CacheSnapshot(k).projects)
  /\ (Returned("insert") /\ ret.call.result.kind = "Ok")
       => LET row == ViewOf(ret)[IdArg(ret.call)]
          IN /\ row # NoRow
             /\ Distinct(row.mods)
             /\ Range(row.mods) = Range(ret.call.builder.projects)
  /\ ret # NoRet => \A e \in Entities(ret.call) : Distinct(e.projects)

\* a get served from the cache returns projects 10 and 20 once each; the only
\* builder that lists them is the one that lists 10 twice
C11_Witness ==
  /\ Returned("get") /\ ret.call.cached # <<>> /\ ret.call.cached[1] # None
  /\ \E e \in Entities(ret.call) : e.projects = <<10, 20>>
  /\ \A b \in Builders : b.projects # <<>> => ~Distinct(b.projects)

\* Collections are inserted, committed and read with get, and nothing else
\* is done to them: no remove, no rollback, no failure.  Keys may expire.
NextInsertRead ==
  \/ \E c \in Callers :
       \/ InsertOk(c) \/ InsertModOk(c) \/ Commit(c)
       \/ CallGet(c) \/ MgetOk(c) \/ SelectOk(c) \/ SetOk(c)
  \/ \E k \in Keys : Expire(k)
  \/ Return

SpecInsertRead == Init /\ [][NextInsertRead]_vars

\* C12 (cache hit fidelity, P1): when a collection was inserted and committed
\* and nothing else was written, a get that finds in the cache the snapshot
\* an earlier read wrote there issues no SELECT and returns a value equal,
\* field for field, to the row as the durable tier holds it.
C12_HitFidelity ==
  (/\ Returned("get") /\ ret.call.cached # <<>> /\ ret.call.cached[1] # None
   /\ db[IdArg(ret.call)] # NoRow
   /\ cache[Key(IdArg(ret.call))] \notin Left(IdArg(ret.call)))
    => /\ ReturnedOk(ret.call, FromRow(IdArg(ret.call), db[IdArg(ret.call)]))
       /\ ret.call.log = AllDone(<<"checkout", "MGET">>)
       /\ cache[Key(IdArg(ret.call))] = Entry(ToJson(ret.call.result.opt), DEFAULT_EXPIRY)

\* the reader that did not insert gets the collection with its two projects
\* from the cache
C12_Witness ==
  /\ Returned("get") /\ ret.caller = "c2" /\ ret.call.cached[1] # None
  /\ db[IdArg(ret.call)] # NoRow
  /\ ret.call.result.kind = "Ok" /\ ret.call.result.opt.projects = <<10, 20>>
  /\ ~Issued(ret.call, "SELECT")

\* caller c runs remove(i) and has issued both DELETEs
Deleting(c, i) ==
  /\ frame[c].op = "remove" /\ frame[c].pc \in {"clear", "del"} /\ IdArg(frame[c]) = i
  /\ View(c, "tx")[i] = NoRow

\* C13 (remove racing get_many): a get_many or a remove that overlapped
\* another call fails only if one of its commands fails; a get_many that
\* found a snapshot of a requested id returns it, whatever a concurrent
\* remove has done to the row.  Which of the outcomes of the race occurs is
\* shown by the two states below.
C13_RaceOutcomes ==
  (ret # NoRet /\ ret.call.op \in {"get_many", "remove"} /\ ~ret.call.alone)
    => LET f == ret.call
       IN /\ NoFailure(f) => f.result.kind = "Ok"
          /\ (f.op = "get_many" /\ f.result.kind = "Ok")
               => \A n \in DOMAIN f.cached :
                    f.cached[n] # None => f.cached[n] \in Range(f.result.val)

\* stale hit: a get_many returns the collection from the cache while the
\* remove of the other caller has deleted the row and not yet the key
C13_Witness ==
  /\ Returned("get_many") /\ ret.call.result.kind = "Ok"
  /\ \E c \in Callers \ {ret.caller} : \E n \in DOMAIN ret.call.collection_ids :
       /\ Deleting(c, ret.call.collection_ids[n])
       /\ db[ret.call.collection_ids[n]] # NoRow
       /\ ret.call.cached[n] # None
       /\ ret.call.cached[n] \in Range(ret.call.result.val)

\* clean miss: a get_many that overlapped other calls found no snapshot of an
\* id, ran its SELECT after the deletion was committed, and returns without
\* the collection
C13_CleanMiss ==
  /\ Returned("get_many") /\ ret.call.result.kind = "Ok" /\ ~ret.call.alone
  /\ \E n \in DOMAIN ret.call.collection_ids :
       LET i == ret.call.collection_ids[n]
       IN /\ ret.call.cached[n] = None /\ Issued(ret.call, "SELECT")
          /\ committed[i] # {} /\ db[i] = NoRow
          /\ WithId(ret.call.result.val, i) = {}

\* One handler after the other, nothing failing: every id is inserted and
\* the inserts are committed; collection 1 is read; collection 2 is removed
\* and the removal is committed; then all ids are requested in some order.
Quiet == \A c \in Callers : Free(c)

ScriptInsert ==
  /\ Quiet /\ ops < MaxId
  /\ \E p \in ProjectLists : Insert("c1", [collection_id |-> ops + 1, title |-> "a", projects |-> p])

ScriptGet(c) == Quiet /\ ops = MaxId /\ txs["c1"] = "none" /\ Get(c, 1, "pool")

ScriptRemove == Quiet /\ ops = MaxId + 1 /\ Remove("c1", 2)

ScriptGetMany(c) ==
  /\ Quiet /\ ops = MaxId + 2 /\ txs["c1"] = "none"
  /\ \E ids \in Orderings(Ids) : GetMany(c, ids, "pool")

NextScript ==
  \/ ScriptInsert
  \/ ScriptRemove
  \/ \E c \in Callers :
       \/ ScriptGet(c) \/ ScriptGetMany(c)
       \/ InsertModOk(c) \/ Commit(c)
       \/ MgetOk(c) \/ SelectOk(c) \/ SetOk(c)
       \/ DeleteModsOk(c) \/ DeleteRowOk(c) \/ ClearCheckoutOk(c) \/ ClearOk(c)
  \/ Return

\* the ids of the script are new: no release has cached a collection under
\* them
InitScript == Init /\ \A i \in Ids : CacheSnapshot(Key(i)) = None

SpecScript == InitScript /\ [][NextScript]_vars

\* the step is one of a remove of c, none of whose commands failed
RemoveSteps(c) ==
  /\ NewFrame(c).op = "remove" /\ NewFrame(c).log # frame[c].log
  /\ NoFailure(NewFrame(c))

\* the rows and the key of id i are left as they are
Untouching(i) ==
  /\ db'[i] = db[i]
  /\ \A c \in Callers : txw'[c][i] = txw[c][i]
  /\ cache'[Key(i)] = cache[Key(i)]

\* the position of id i in the request
PosOf(ids, i) == CHOOSE n \in DOMAIN ids : ids[n] = i

\* the last call of the script returned
ScriptDone == Returned("get_many") /\ ops = MaxId + 3

\* C14 (remove touches only its id): no step of remove(id) changes a row or
\* a cache key of another id; so after every id was inserted, 1 was read
\* and 2 was removed, a get_many of all ids returns 1 from the cache and the
\* others, except 2, from the durable tier.
C14_RemoveOnlyId ==
  /\ [][\A c \in Callers :
          RemoveSteps(c) => \A i \in Ids \ {IdArg(NewFrame(c))} : Untouching(i)]_vars
  /\ [](ScriptDone =>
          LET f == ret.call
              ids == f.collection_ids
          IN /\ f.result.kind = "Ok"
             /\ Len(f.result.val) = MaxId - 1
             /\ \A i \in Ids :
                  IF i = 2 THEN WithId(f.result.val, i) = {}
                  ELSE /\ db[i] # NoRow
                       /\ FromRow(i, db[i]) \in Range(f.result.val)
                       /\ (f.cached[PosOf(ids, i)] # None) = (i = 1)
             /\ f.remaining_collections = SelectSeq(ids, LAMBDA i : i # 1)
             /\ f.log = AllDone(<<"checkout", "MGET", "SELECT">>
                                  \o [n \in 1..(MaxId - 2) |-> "SET"]))

\* the request names the removed id first and the cached id last; the
\* removed collection had projects
C14_Witness ==
  /\ ScriptDone /\ ret.call.result.kind = "Ok"
  /\ ret.call.collection_ids[1] = 2 /\ ret.call.collection_ids[MaxId] = 1
  /\ {e.id : e \in Range(ret.call.result.val)} = Ids \ {2}
  /\ committed[2] # {} /\ \A row \in committed[2] : row.mods # <<>>
  /\ \A i \in Ids \ {2} : db[i].mods # <<>>

\* the remove calls: those running and the one that has just returned
RemoveCalls ==
  {frame[c] : c \in {d \in Callers : frame[d].op = "remove"}}
    \cup (IF Returned("remove") THEN {ret.call} ELSE {})

\* command a precedes command b in the log, and succeeded
DoneBefore(f, a, n) == \E m \in 1..(n - 1) : f.log[m] = Done(a)

\* C15 (order within remove): the commands of a remove are issued in the
\* order existence check (checkout, MGET and, on a miss, SELECT and SET),
\* DELETE of the collections_mods rows, DELETE of the collections row,
\* checkout and DEL of the key; each is issued only after the ones before it
\* succeeded, so the DEL never precedes a DELETE and is not issued when a
\* DELETE fails.
C15_RemoveOrder ==
  \A f \in RemoveCalls :
    /\ \A n \in DOMAIN f.log :
         /\ ~f.log[n].ok => n = Len(f.log)
         /\ f.log[n].cmd = "DELETE_MODS" =>
              /\ DoneBefore(f, "MGET", n)
              /\ f.found_collections # <<>>
              /\ f.log[n - 1].cmd \in {"MGET", "SET"}
         /\ f.log[n].cmd = "DELETE_ROW" => f.log[n - 1] = Done("DELETE_MODS")
         /\ f.log[n].cmd = "DEL" =>
              /\ DoneBefore(f, "DELETE_MODS", n) /\ DoneBefore(f, "DELETE_ROW", n)
              /\ f.log[n - 1] = Done("checkout")
              /\ f.log[n - 2] = Done("DELETE_ROW")
    /\ (IssuedFailed(f, "DELETE_MODS") \/ IssuedFailed(f, "DELETE_ROW")) => ~Issued(f, "DEL")

\* a remove that missed the cache went through every command and returned
C15_Witness ==
  /\ Returned("remove")
  /\ ret.call.log = AllDone(<<"checkout", "MGET", "SELECT", "SET",
                              "DELETE_MODS", "DELETE_ROW", "checkout", "DEL">>)
  /\ ReturnedOk(ret.call, Some)

\* key k holds a snapshot after the step
CachedAfter(k) == cache'[k] # Absent /\ FromJson(cache'[k].val) # None

\* the step is the SET, with the default expiry, of a write-back whose call
\* missed the cache for the id of k and read its row with the SELECT
MissWritesBack(k) ==
  \E c \in Callers :
    /\ At(c, "set") /\ Issued(frame[c], "SELECT")
    /\ LET collection == frame[c].db_collections[frame[c].wb + 1]
       IN /\ k = Key(collection.id)
          /\ collection.id \in Range(frame[c].remaining_collections)
          /\ cache'[k] = Entry(ToJson(collection), DEFAULT_EXPIRY)
          /\ NewFrame(c).log = Append(frame[c].log, Done("SET"))

\* the step is the DEL of k by clear_cache, called directly or by remove
Deletes(k) ==
  \E c \in Callers :
    /\ At(c, "del") /\ frame[c].op \in {"remove", "clear_cache"}
    /\ NewFrame(c).log = Append(frame[c].log, Done("DEL"))
    /\ k = Key(ClearId(frame[c]))

\* the step is none of a call: no command is issued
NoCommand == \A c \in Callers : NewFrame(c).log = frame[c].log

\* the step is the MGET of a call that finds every id in the cache
Hits(c) ==
  /\ At(c, "mget") /\ NewFrame(c).cached # <<>>
  /\ \A n \in DOMAIN NewFrame(c).cached : NewFrame(c).cached[n] # None

\* C16 (per-key lifecycle): a key gets a value only by the SET of a
\* write-back whose get_many missed the cache for the id and read the row,
\* always with the expiry of 1800 seconds; it loses its value only by expiry
\* or by the DEL of clear_cache (direct or within remove); a call served from
\* the cache issues checkout and MGET only and leaves every key as it is.
C16_KeyLifecycle ==
  [][/\ \A k \in Keys :
          /\ (cache'[k] # cache[k] /\ cache'[k] # Absent) => MissWritesBack(k)
          /\ (CacheSnapshot(k) = None /\ CachedAfter(k)) => MissWritesBack(k)
          /\ (cache[k] # Absent /\ cache'[k] = Absent) => (Deletes(k) \/ NoCommand)
          /\ cache'[k] # Absent => cache'[k].ex = DEFAULT_EXPIRY
     /\ \A c \in Callers :
          Hits(c) => /\ cache' = cache
                     /\ NewFrame(c).log = AllDone(<<"checkout", "MGET">>)]_vars

\* a get_many was served from the cache, and the entry it read is as the
\* write-back left it
C16_Witness ==
  /\ Returned("get_many") /\ ret.call.log = AllDone(<<"checkout", "MGET">>)
  /\ \A n \in DOMAIN ret.call.collection_ids :
       /\ ret.call.cached[n] # None
       /\ cache[Key(ret.call.collection_ids[n])] = Entry(ToJson(ret.call.cached[n]), DEFAULT_EXPIRY)

\* A get_many that is not counted in ops: the reader polls without bound.
Poll(c) ==
  /\ c \notin Writers /\ Ready(c)
  /\ \E ids \in SeqsUpTo(CallIds, MaxReq) \ {<<>>}, e \in Execs(c) :
       Step(c, Begin(c, "get_many", ids, e), TRUE)
  /\ UNCHANGED <<db, txs, txw, cache, committed, ops>>

\* Collections are inserted and removed a bounded number of times, the cache
\* invalidation of a remove may fail, and readers poll for ever.  A key with
\* an expiry expires, and a caller takes the value a call returned.
NextPolling ==
  \/ \E c \in Callers :
       \/ InsertOk(c) \/ InsertModOk(c) \/ Commit(c) \/ Rollback(c)
       \/ CallRemove(c) \/ DeleteModsOk(c) \/ DeleteRowOk(c)
       \/ ClearCheckoutOk(c) \/ ClearOk(c) \/ ClearFail(c)
       \/ Poll(c) \/ MgetOk(c) \/ SelectOk(c) \/ SetOk(c)
  \/ \E k \in Keys : Expire(k)
  \/ Return

SpecPolling ==
  /\ Init /\ [][NextPolling]_vars
  /\ WF_vars(Return)
  /\ \A k \in Keys : SF_vars(Expire(k))

\* collection i existed and its deletion is committed; no transaction holds
\* a new row for it
Gone(i) ==
  /\ committed[i] # {} /\ db[i] = NoRow
  /\ \A c \in Callers : txw[c][i] \in {Untouched, NoRow}

\* a get_many has just returned collection i
Observed(i) ==
  Returned("get_many") /\ ret.call.result.kind = "Ok" /\ WithId(ret.call.result.val, i) # {}

\* C17 (staleness after delete is bounded): from some point on, whenever the
\* deletion of a collection is committed, its key is absent and no get_many
\* returns it, whatever the readers did meanwhile and also when the DEL of
\* the remove failed.
C17_StalenessBounded ==
  \A i \in CallIds : <>[](Gone(i) => (cache[Key(i)] = Absent /\ ~Observed(i)))

\* the window: the deletion is committed, the key still holds the snapshot
\* and a get_many returns it
C17_Witness ==
  \E i \in CallIds :
    /\ Gone(i) /\ CacheSnapshot(Key(i)) # None
    /\ Observed(i) /\ ~Issued(ret.call, "SELECT")

\* C18 (key/snapshot agreement): the snapshot under the key of id k has id
\* k, so the scan of the MGET reply, which retains by the id inside the
\* snapshot, takes out of remaining_collections the id whose key was read.
C18_KeyAgreement ==
  /\ \A i \in Ids : CacheSnapshot(Key(i)) # None => CacheSnapshot(Key(i)).id = i
  /\ (ret # NoRet /\ ReadsThrough(ret.call))
       => \A n \in DOMAIN ret.call.cached :
            ret.call.cached[n] # None
              => /\ ret.call.cached[n].id = ret.call.collection_ids[n]
                 /\ ret.call.collection_ids[n] \notin Range(ret.call.remaining_collections)

\* two keys hold snapshots, one of them written by a write-back, and a
\* get_many of the two ids in descending order was served from them
C18_Witness ==
  /\ Returned("get_many") /\ ret.call.collection_ids = <<2, 1>>
  /\ \E i \in {1, 2} : cache[Key(i)] \notin Left(i)
  /\ ret.call.result = Ok(<<CacheSnapshot(Key(2)), CacheSnapshot(Key(1))>>)
  /\ CacheSnapshot(Key(1)) # None /\ CacheSnapshot(Key(2)) # None
  /\ ret.call.remaining_collections = <<>>

\* the number of times id i occurs in the request
Occurrences(ids, i) == Cardinality({n \in DOMAIN ids : ids[n] = i})

\* C19 (multiplicity of results): an id requested m times is returned m
\* times when its key held a snapshot, and once when its row came from the
\* SELECT; a request of distinct ids never returns two collections with the
\* same id.
C19_Multiplicity ==
  (Returned("get_many") /\ ret.call.result.kind = "Ok")
    => LET f == ret.call
           ids == f.collection_ids
       IN /\ \A n \in DOMAIN ids :
               LET copies == Cardinality(WithId(f.result.val, ids[n]))
               IN /\ f.cached[n] # None => copies = Occurrences(ids, ids[n])
                  /\ f.cached[n] = None =>
                       copies = IF WithId(f.db_collections, ids[n]) # {} THEN 1 ELSE 0
          /\ Distinct(ids) => \A n \in DOMAIN ids : Cardinality(WithId(f.result.val, ids[n])) <= 1

\* an id requested twice and found in the cache is returned twice
C19_Witness ==
  /\ Returned("get_many") /\ ret.call.result.kind = "Ok"
  /\ Len(ret.call.collection_ids) = 2 /\ ~Distinct(ret.call.collection_ids)
  /\ ret.call.cached[1] # None
  /\ ret.call.result.val = <<ret.call.cached[1], ret.call.cached[1]>>

\* C20 (remove decides existence by a cache-aside read): a remove none of
\* whose commands fails returns Some exactly when its get found a collection;
\* when the key of id held a snapshot it issues no SELECT, runs both DELETEs
\* and the DEL and returns Some, also when id has no durable row; it returns
\* None only when the key held no snapshot and the SELECT found no row.
C20_RemoveReadsThrough ==
  Returned("remove") =>
    LET f == ret.call
    IN /\ NoFailure(f) =>
            /\ f.result.kind = "Ok"
            /\ (f.result.opt = Some) = (f.found_collections # <<>>)
            /\ f.result.opt \in {Some, None}
       /\ (NoFailure(f) /\ f.cached[1] # None) =>
            /\ ReturnedOk(f, Some)
            /\ f.log = AllDone(<<"checkout", "MGET", "DELETE_MODS", "DELETE_ROW",
                                 "checkout", "DEL">>)
       /\ ReturnedOk(f, None) =>
            /\ f.cached[1] = None
            /\ Issued(f, "SELECT") /\ f.db_collections = <<>>
            /\ f.alone => ViewOf(ret)[IdArg(f)] = NoRow /\ CacheSnapshot(Key(IdArg(f))) = None

\* remove returned Some for an id that never had a committed row and has none
\* in the transaction: its key held a snapshot
C20_Witness ==
  /\ Returned("remove") /\ ReturnedOk(ret.call, Some) /\ ret.call.alone
  /\ ret.call.cached[1] # None /\ ~Issued(ret.call, "SELECT")
  /\ committed[IdArg(ret.call)] = {} /\ db[IdArg(ret.call)] = NoRow
  /\ txw[ret.caller][IdArg(ret.call)] = Untouched

\* the step is the failure of the clear_cache (checkout or DEL) that ends
\* the remove of c
ClearFails(c) ==
  /\ frame[c].op = "remove" /\ frame[c].pc \in {"clear", "del"}
  /\ ret' # NoRet /\ ret'.caller = c /\ ret'.call.result.kind = "Err"

\* C21 (failure of the final cache invalidation in remove): when the
\* clear_cache at the end of remove(id) fails, remove returns the Redis error
\* and not Some; both DELETEs were executed before it in the transaction of
\* the caller, which stays open with their effect (id has no row in it) and
\* is left as it was by the failing step; the step does not change the
\* cache, and when nothing else touched a tier since the call began, the key
\* of id still holds the snapshot the existence check found or wrote.
C21_ClearFailure ==
  [][\A c \in Callers : ClearFails(c) =>
       LET f == ret'.call
           id == IdArg(f)
           n == Len(f.log)
       IN /\ f.result = Err("Redis")
          /\ f.log[n] \in {Failed("checkout"), Failed("DEL")}
          /\ DoneBefore(f, "DELETE_MODS", n) /\ DoneBefore(f, "DELETE_ROW", n)
          /\ txs[c] = "open" /\ txs' = txs /\ txw' = txw /\ db' = db
          /\ View(c, "tx")[id] = NoRow
          /\ cache' = cache
          /\ f.alone => /\ cache'[Key(id)] # Absent
                        /\ FromJson(cache'[Key(id)].val) = Head(f.found_collections)]_vars

\* The DEL of a remove failed and the call returned the error; the remove ran
\* alone and missed the cache, so its existence check wrote the entry, which
\* is still there, and the row is deleted in the open transaction only.
C21_Witness ==
  /\ Returned("remove") /\ ret.call.alone
  /\ ret.call.log = AllDone(<<"checkout", "MGET", "SELECT", "SET",
                              "DELETE_MODS", "DELETE_ROW", "checkout">>)
                      \o <<Failed("DEL")>>
  /\ ret.call.result = Err("Redis")
  /\ txs[ret.caller] = "open" /\ txw[ret.caller][IdArg(ret.call)] = NoRow
  /\ db[IdArg(ret.call)] # NoRow
  /\ CacheSnapshot(Key(IdArg(ret.call))) = Head(ret.call.found_collections)

====
